---- MODULE Spec2Model ----
(***************************************************************************)
(* massive-csv: the memory-mapped row-indexed reader, the delimiter and    *)
(* row parser, and the edit-tracking layer with its atomic save.           *)
(*                                                                         *)
(* A file, a raw line and a field are sequences of bytes (0..255).  The    *)
(* bytes that occur are ASCII, plus 0xFF, which is valid nowhere in  *)
(* UTF-8, so "valid UTF-8" is "holds no byte above 127" here.              *)
(***************************************************************************)
EXTENDS Integers, Sequences, FiniteSets, TLC

(* ------------------------------ bytes --------------------------------- *)
TAB == 9
LF == 10
FF == 12
CR == 13
SP == 32
QUOTE == 34
COMMA == 44
SEMICOLON == 59
PIPE == 124

\* the other bytes of the sample data: letters, and 0xFF, which no UTF-8 text holds
Byte == [A |-> 65, X |-> 88, a |-> 97, b |-> 98, h |-> 104, x |-> 120, y |-> 121,
         bad |-> 255]

(* --------------------------- sequence helpers ------------------------- *)
Last(s) == s[Len(s)]
Front(s) == SubSeq(s, 1, Len(s) - 1)

\* data[from..to) with 0-based offsets, as a Rust slice
Slice(data, from, to) == SubSeq(data, from + 1, to)

\* iter().position(|b| b == c): 0-based offset of the first c, or -1
Position(data, c) ==
    IF \E i \in 1..Len(data) : data[i] = c
    THEN (CHOOSE i \in 1..Len(data) : data[i] = c /\ \A j \in 1..(i - 1) : data[j] # c) - 1
    ELSE -1

\* std::str::from_utf8(..).is_ok() over the bytes that occur
ValidUtf8(data) == \A i \in 1..Len(data) : data[i] < 128

\* u8::is_ascii_whitespace
IsAsciiWhitespace(b) == b \in {SP, TAB, LF, FF, CR}

(* ------------------------------ results ------------------------------- *)
\* Result<T>: Ok(val) or an error identity with its payload
Ok(v) == [tag |-> "Ok", val |-> v, a |-> 0, b |-> 0]
Err(t, x, y) == [tag |-> t, val |-> <<>>, a |-> x, b |-> y]
IsOk(r) == r.tag = "Ok"

(* ------------------------------ parser.rs ----------------------------- *)
\* Delimiter::all(), in order, as bytes
Delimiters == <<COMMA, TAB, SEMICOLON, PIPE>>

\* lines sampled by detect_delimiter
SAMPLE_LINES == 20

first_line(data) ==
    LET p == Position(data, LF)
        end == IF p < 0 THEN Len(data) ELSE p
        line == Slice(data, 0, end)
    IN  IF Len(line) > 0 /\ Last(line) = CR THEN Front(line) ELSE line

RECURSIVE first_n_lines_from(_, _, _)
first_n_lines_from(data, n, start) ==
    IF n = 0 \/ start >= Len(data) THEN <<>>
    ELSE LET remaining == Slice(data, start, Len(data))
             p == Position(remaining, LF)
             end == IF p < 0 THEN Len(remaining) ELSE p
             l0 == Slice(remaining, 0, end)
             line == IF Len(l0) > 0 /\ Last(l0) = CR THEN Front(l0) ELSE l0
         IN  <<line>> \o first_n_lines_from(data, n - 1, start + end + 1)

first_n_lines(data, n) == first_n_lines_from(data, n, 0)

RECURSIVE count_fields_from(_, _, _, _)
count_fields_from(line, delimiter, i, in_quotes) ==
    IF i > Len(line) THEN 1
    ELSE IF line[i] = QUOTE THEN count_fields_from(line, delimiter, i + 1, ~in_quotes)
    ELSE IF line[i] = delimiter /\ ~in_quotes
         THEN 1 + count_fields_from(line, delimiter, i + 1, in_quotes)
    ELSE count_fields_from(line, delimiter, i + 1, in_quotes)

count_fields(line, delimiter) == count_fields_from(line, delimiter, 1, FALSE)

\* the score of one candidate: 0 when it is skipped
delimiter_score(sample, delim) ==
    LET mode == count_fields(sample[1], delim)
        consistent == Cardinality({k \in 1..Len(sample) : count_fields(sample[k], delim) = mode})
    IN  IF mode <= 1 THEN 0 ELSE consistent * mode

\* faulty variant of detect_loop: a candidate that equals the best score replaces it
RECURSIVE detect_loop_last_wins(_, _, _, _)
detect_loop_last_wins(sample, k, best, best_score) ==
    IF k > Len(Delimiters) THEN best
    ELSE LET score == delimiter_score(sample, Delimiters[k])
         IN  IF score > 0 /\ score >= best_score
             THEN detect_loop_last_wins(sample, k + 1, Delimiters[k], score)
             ELSE detect_loop_last_wins(sample, k + 1, best, best_score)

RECURSIVE detect_loop(_, _, _, _)
detect_loop(sample, k, best, best_score) ==
    IF k > Len(Delimiters) THEN best
    ELSE LET score == delimiter_score(sample, Delimiters[k])
         IN  IF score > best_score
             THEN detect_loop(sample, k + 1, Delimiters[k], score)
             ELSE detect_loop(sample, k + 1, best, best_score)

detect_delimiter(data) ==
    LET sample == first_n_lines(data, SAMPLE_LINES)
    IN  IF sample = <<>> THEN COMMA ELSE detect_loop(sample, 1, COMMA, 0)

\* csv reader, default settings: '"' quotes, "" is an escaped quote, \r and \n
\* both end a record, empty lines before the record are skipped.
IsTerm(c) == c = CR \/ c = LF

RECURSIVE read_record(_, _, _, _, _, _)
read_record(line, delimiter, i, st, cur, out) ==
    IF i > Len(line)
    THEN IF st = "StartRecord" THEN out ELSE Append(out, cur)
    ELSE LET c == line[i] IN
      CASE st = "StartRecord" ->
             IF IsTerm(c) THEN read_record(line, delimiter, i + 1, "StartRecord", cur, out)
             ELSE read_record(line, delimiter, i, "StartField", cur, out)
        [] st = "StartField" ->
             IF c = QUOTE THEN read_record(line, delimiter, i + 1, "InQuotedField", <<>>, out)
             ELSE IF c = delimiter
                  THEN read_record(line, delimiter, i + 1, "StartField", <<>>, Append(out, <<>>))
             ELSE IF IsTerm(c) THEN Append(out, <<>>)
             ELSE read_record(line, delimiter, i + 1, "InField", <<c>>, out)
        [] st = "InField" ->
             IF c = delimiter
             THEN read_record(line, delimiter, i + 1, "StartField", <<>>, Append(out, cur))
             ELSE IF IsTerm(c) THEN Append(out, cur)
             ELSE read_record(line, delimiter, i + 1, "InField", Append(cur, c), out)
        [] st = "InQuotedField" ->
             IF c = QUOTE
             THEN read_record(line, delimiter, i + 1, "InDoubleEscapedQuote", cur, out)
             ELSE read_record(line, delimiter, i + 1, "InQuotedField", Append(cur, c), out)
        [] st = "InDoubleEscapedQuote" ->
             IF c = QUOTE
             THEN read_record(line, delimiter, i + 1, "InQuotedField", Append(cur, c), out)
             ELSE IF c = delimiter
                  THEN read_record(line, delimiter, i + 1, "StartField", <<>>, Append(out, cur))
             ELSE IF IsTerm(c) THEN Append(out, cur)
             ELSE read_record(line, delimiter, i + 1, "InField", Append(cur, c), out)

\* parse_row on text (the callers have checked the UTF-8): the first record's
\* fields, or no fields when there is no record
parse_row(line, delimiter) == read_record(line, delimiter, 1, "StartRecord", <<>>, <<>>)

parse_headers(data, delimiter) ==
    IF data = <<>> THEN Err("EmptyFile", 0, 0)
    ELSE IF ~ValidUtf8(first_line(data)) THEN Err("InvalidUtf8", 0, 0)
    ELSE Ok(parse_row(first_line(data), delimiter))

\* csv writer, default settings: a field is quoted when it holds the delimiter,
\* a quote, \r or \n; embedded quotes are doubled
needs_quotes(field, delimiter) ==
    \E i \in 1..Len(field) : field[i] \in {delimiter, QUOTE, CR, LF}

RECURSIVE double_quotes(_)
double_quotes(field) ==
    IF field = <<>> THEN <<>>
    ELSE (IF Head(field) = QUOTE THEN <<QUOTE, QUOTE>> ELSE <<Head(field)>>)
         \o double_quotes(Tail(field))

write_field(field, delimiter) ==
    IF needs_quotes(field, delimiter)
    THEN <<QUOTE>> \o double_quotes(field) \o <<QUOTE>>
    ELSE field

RECURSIVE write_fields(_, _)
write_fields(fields, delimiter) ==
    IF fields = <<>> THEN <<>>
    ELSE IF Len(fields) = 1 THEN write_field(fields[1], delimiter)
    ELSE write_field(fields[1], delimiter) \o <<delimiter>> \o write_fields(Tail(fields), delimiter)

\* write_record: a record that wrote no byte is written as "" ; then the terminator
write_record(fields, delimiter) ==
    LET rec == write_fields(fields, delimiter)
    IN  (IF rec = <<>> THEN <<QUOTE, QUOTE>> ELSE rec) \o <<LF>>

serialize_row(fields, delimiter) ==
    LET output == write_record(fields, delimiter)
        o1 == IF Len(output) > 0 /\ Last(output) = LF THEN Front(output) ELSE output
        o2 == IF Len(output) > 0 /\ Last(output) = LF /\ Len(o1) > 0 /\ Last(o1) = CR
              THEN Front(o1) ELSE o1
    IN  o2

(* ------------------------------ reader.rs ----------------------------- *)
strip_line_ending(data) ==
    LET e1 == IF Len(data) > 0 /\ data[Len(data)] = LF THEN Len(data) - 1 ELSE Len(data)
        e2 == IF e1 > 0 /\ data[e1] = CR THEN e1 - 1 ELSE e1
    IN  Slice(data, 0, e2)

\* offsets pushed by the scan of build_index: one past every \n that is not the last byte
RECURSIVE scan_index(_, _)
scan_index(data, pos) ==
    IF pos >= Len(data) THEN <<>>
    ELSE (IF data[pos + 1] = LF /\ pos + 1 < Len(data) THEN <<pos + 1>> ELSE <<>>)
         \o scan_index(data, pos + 1)

\* faulty variant of drops_last: the last slice is not looked at
drops_last_past_end(data, index) == Last(index) >= Len(data)

drops_last(data, index) ==
    LET last == Last(index)
        tail == strip_line_ending(Slice(data, last, Len(data)))
    IN  last >= Len(data) \/ \A k \in 1..Len(tail) : IsAsciiWhitespace(tail[k])

build_index(data, data_start) ==
    IF data_start >= Len(data) THEN <<>>
    ELSE LET index == <<data_start>> \o scan_index(data, data_start)
         IN  IF drops_last(data, index) THEN Front(index) ELSE index

\* CsvReader::open on a file whose bytes are data (the path is fixed)
open(data) ==
    IF Len(data) = 0 THEN Err("EmptyFile", 0, 0)
    ELSE LET delimiter == detect_delimiter(data)
             headers == parse_headers(data, delimiter)
             p == Position(data, LF)
             header_end == IF p < 0 THEN Len(data) ELSE p + 1
         IN  IF ~IsOk(headers) THEN headers
             ELSE Ok([mmap |-> data,
                      line_index |-> build_index(data, header_end),
                      headers |-> headers.val,
                      delimiter |-> delimiter])

row_count(r) == Len(r.line_index)

get_row_raw(r, row) ==
    LET count == row_count(r) IN
    IF row >= count THEN Err("RowOutOfRange", row, count)
    ELSE LET start == r.line_index[row + 1]
             end == IF row + 1 < count THEN r.line_index[row + 2] ELSE Len(r.mmap)
             slice == strip_line_ending(Slice(r.mmap, start, end))
         IN  IF ValidUtf8(slice) THEN Ok(slice) ELSE Err("InvalidUtf8", start, 0)

reader_get_row(r, row) ==
    LET raw == get_row_raw(r, row)
    IN  IF IsOk(raw) THEN Ok(parse_row(raw.val, r.delimiter)) ELSE raw

\* faulty variant of get_rows_from: end is not cut to row_count
RECURSIVE get_rows_unclamped(_, _, _, _)
get_rows_unclamped(r, i, end, rows) ==
    IF i >= end THEN Ok(rows)
    ELSE IF ~IsOk(reader_get_row(r, i)) THEN reader_get_row(r, i)
    ELSE get_rows_unclamped(r, i + 1, end, Append(rows, reader_get_row(r, i).val))

\* the loop of get_rows from row i on, end being end.min(row_count)
RECURSIVE get_rows_from(_, _, _, _)
get_rows_from(r, i, end, rows) ==
    IF i >= end \/ i >= row_count(r) THEN Ok(rows)
    ELSE IF ~IsOk(reader_get_row(r, i)) THEN reader_get_row(r, i)
    ELSE get_rows_from(r, i + 1, end, Append(rows, reader_get_row(r, i).val))

get_rows(r, start, end) == get_rows_from(r, start, end, <<>>)

(* ------------------------------ editor.rs ----------------------------- *)
VARIABLES
    disk,      \* the bytes of the file at the editor's path
    reader,    \* CsvEditor.reader: the mapping, the line index, the headers, the delimiter
    edits,     \* CsvEditor.edits: row -> fields, a function on the edited rows
    written,   \* history: row -> the fields last stored for it since its last revert or save
    op,        \* the last call: its name and arguments
    result,    \* what the last call returned
    log,       \* the file-system and mapping events of the last call, in order
    nops,      \* calls made so far
    jobs,      \* search: the row ranges [lo, hi) the parallel iterator was split into
    found,     \* search: the jobs finished so far with their hits, in finishing order
    mutex,     \* CsvDocument.editor: the thread that holds the lock, 0 when it is free
    threads    \* the callers of a CsvDocument: where each one is in its call

vars == <<disk, reader, edits, written, op, result, log, nops, jobs, found, mutex, threads>>

\* the variables of a search in progress; no search runs while the editor is called
search_vars == <<jobs, found>>

\* the variables of the binding; the core is called by one caller when it is not
\* reached through a CsvDocument
doc_vars == <<mutex, threads>>
Threads == {1, 2, 3}
NoCalls == [t \in Threads |-> [pc |-> "idle", call |-> "none"]]

\* ---- bound of the exploration: calls made on one editor
MaxOps == 3

\* ---- sample data
\* header lines: one column; two columns under ',' that are also two under ';'
HeaderPool == { <<Byte.h>>, <<QUOTE, Byte.a, QUOTE, COMMA, Byte.b, SEMICOLON, Byte.h>> }
\* data lines: plain, needlessly quoted, not UTF-8
RowPool == { <<Byte.x, COMMA, Byte.y>>, <<QUOTE, Byte.x, QUOTE, COMMA, Byte.y>>, <<Byte.x, Byte.bad>> }
RowCounts == {0, 1, 2}
EolPool == { <<LF>>, <<CR, LF>> }
\* arguments of set_row: no field, a field with another delimiter, a field with a line end
FieldsPool == { <<>>, <<<<Byte.x, SEMICOLON, Byte.y>>>>, <<<<Byte.x, LF, Byte.y>>, <<Byte.b>>>> }
\* arguments of set_cell
ValuePool == { <<Byte.a, COMMA, QUOTE>> }
Cols == {0, 1}

RECURSIVE join_lines(_, _)
join_lines(lines, eol) ==
    IF lines = <<>> THEN <<>> ELSE Head(lines) \o eol \o join_lines(Tail(lines), eol)

RowSeqs == UNION { [1..n -> RowPool] : n \in RowCounts }

\* the files an editor is opened on: a header and the data lines, \n or \r\n
\* line ends, the last line end present or not
Files ==
    { join_lines(<<h>> \o rows, eol) : h \in HeaderPool, rows \in RowSeqs, eol \in EolPool }
    \cup { Front(join_lines(<<h>> \o rows, <<LF>>)) : h \in HeaderPool, rows \in RowSeqs }

NoEdits == [k \in {} |-> <<>>]

has_changes == DOMAIN edits # {}
edit_count == Cardinality(DOMAIN edits)

insert(map, row, fields) ==
    [k \in DOMAIN map \cup {row} |-> IF k = row THEN fields ELSE map[k]]

\* faulty variant of remove: the whole map is cleared
remove_all(map, row) == NoEdits

remove(map, row) == [k \in DOMAIN map \ {row} |-> map[k]]

\* faulty variant of editor_get_row: the pending edit is not looked at
editor_get_row_file_only(rd, ed, row) == reader_get_row(rd, row)

\* CsvEditor::get_row in a given editor state
editor_get_row(rd, ed, row) ==
    IF row \in DOMAIN ed THEN Ok(ed[row]) ELSE reader_get_row(rd, row)

\* faulty variant of get_row: the row of the file, whatever the edit map holds
get_row_from_file(row) == reader_get_row(reader, row)

get_row(row) == editor_get_row(reader, edits, row)

\* a call: val holds the fields given to set_row, or the one value given to set_cell
Call(name, row, col, val) ==
    [name |-> name, row |-> row, col |-> col, val |-> val, fail |-> "none"]

\* CsvEditor::open
Init ==
    /\ disk \in { f \in Files : IsOk(open(f)) }
    /\ reader = open(disk).val
    /\ edits = NoEdits
    /\ written = NoEdits
    /\ op = Call("open", 0, 0, <<>>)
    /\ result = Ok(<<>>)
    /\ log = <<>>
    /\ nops = 0
    /\ jobs = <<>>
    /\ found = <<>>
    /\ mutex = 0
    /\ threads = NoCalls

\* faulty variant of set_row: the row is not checked against row_count
set_row_unchecked(row, fields) ==
    /\ nops < MaxOps
    /\ nops' = nops + 1
    /\ op' = Call("set_row", row, 0, fields)
    /\ edits' = insert(edits, row, fields)
    /\ written' = insert(written, row, fields)
    /\ result' = Ok(<<>>)
    /\ log' = <<>>
    /\ UNCHANGED <<disk, reader>>

set_row(row, fields) ==
    /\ nops < MaxOps
    /\ nops' = nops + 1
    /\ op' = Call("set_row", row, 0, fields)
    /\ LET count == row_count(reader) IN
       IF row >= count
       THEN /\ result' = Err("RowOutOfRange", row, count)
            /\ UNCHANGED <<edits, written>>
       ELSE /\ edits' = insert(edits, row, fields)
            /\ written' = insert(written, row, fields)
            /\ result' = Ok(<<>>)
    /\ log' = <<>>
    /\ UNCHANGED <<disk, reader>>

set_cell(row, col, value) ==
    /\ nops < MaxOps
    /\ nops' = nops + 1
    /\ op' = Call("set_cell", row, col, <<value>>)
    /\ LET fields == get_row(row) IN
       IF ~IsOk(fields)
       THEN /\ result' = fields
            /\ UNCHANGED <<edits, written>>
       ELSE IF col >= Len(fields.val)
       THEN /\ result' = Err("ColumnNotFound", col, 0)
            /\ UNCHANGED <<edits, written>>
       ELSE /\ edits' = insert(edits, row, [fields.val EXCEPT ![col + 1] = value])
            /\ written' = insert(written, row, [fields.val EXCEPT ![col + 1] = value])
            /\ result' = Ok(<<>>)
    /\ log' = <<>>
    /\ UNCHANGED <<disk, reader>>

\* faulty variant of revert_row: the row is checked against row_count, as set_row does
revert_row_checked(row) ==
    /\ nops < MaxOps
    /\ nops' = nops + 1
    /\ op' = Call("revert_row", row, 0, <<>>)
    /\ edits' = remove(edits, row)
    /\ written' = remove(written, row)
    /\ result' = IF row >= row_count(reader)
                 THEN Err("RowOutOfRange", row, row_count(reader)) ELSE Ok(<<>>)
    /\ log' = IF row \in DOMAIN edits THEN << <<"removed", row>> >> ELSE <<>>
    /\ UNCHANGED <<disk, reader>>

revert_row(row) ==
    /\ nops < MaxOps
    /\ nops' = nops + 1
    /\ op' = Call("revert_row", row, 0, <<>>)
    /\ edits' = remove(edits, row)
    /\ written' = remove(written, row)
    /\ result' = Ok(<<>>)
    /\ log' = IF row \in DOMAIN edits THEN << <<"removed", row>> >> ELSE <<>>
    /\ UNCHANGED <<disk, reader>>

\* faulty variant of revert_all: the file is rewritten without the edits and re-opened
revert_all_rewrites ==
    /\ nops < MaxOps
    /\ nops' = nops + 1
    /\ op' = Call("revert_all", 0, 0, <<>>)
    /\ edits' = NoEdits
    /\ written' = NoEdits
    /\ result' = Ok(<<>>)
    /\ log' = <<>>
    /\ disk' = reader.mmap \o <<LF>>
    /\ reader' = open(disk').val

revert_all ==
    /\ nops < MaxOps
    /\ nops' = nops + 1
    /\ op' = Call("revert_all", 0, 0, <<>>)
    /\ edits' = NoEdits
    /\ written' = NoEdits
    /\ result' = Ok(<<>>)
    /\ log' = <<>>
    /\ UNCHANGED <<disk, reader>>

\* ---- save
\* where the environment makes an I/O call of save fail
FailPoints == {"none", "tempfile", "write", "flush", "rename", "reopen"}

Io == Err("Io", 0, 0)

\* faulty variant of row_line: an unedited row is parsed and serialized again
row_line_requoted(rd, ed, i) ==
    IF i \in DOMAIN ed THEN Ok(serialize_row(ed[i], rd.delimiter))
    ELSE IF IsOk(get_row_raw(rd, i))
         THEN Ok(serialize_row(parse_row(get_row_raw(rd, i).val, rd.delimiter), rd.delimiter))
    ELSE get_row_raw(rd, i)

\* the line save writes for row i: the serialized edit, or the raw bytes of the mapping
row_line(rd, ed, i) ==
    IF i \in DOMAIN ed THEN Ok(serialize_row(ed[i], rd.delimiter)) ELSE get_row_raw(rd, i)

header_line(rd) == serialize_row(rd.headers, rd.delimiter)

\* the events of row i in the row loop of save, up to its write
row_events(ed, i, wrote) ==
    (IF i \in DOMAIN ed THEN <<>> ELSE << <<"read_raw", i>> >>)
    \o (IF wrote THEN << <<"write", i + 1>> >> ELSE <<>>)

after_events(events, rest) == [log |-> events \o rest.log, res |-> rest.res]

\* the row loop of save from row i on: its events and how it ends.  The write of
\* line w fails when fail = "write" (line 0 is the header, line i + 1 is row i).
RECURSIVE write_rows(_, _, _, _, _)
write_rows(rd, ed, i, fail, w) ==
    IF i >= row_count(rd) THEN [log |-> <<>>, res |-> Ok(<<>>)]
    ELSE IF ~IsOk(row_line(rd, ed, i))
         THEN [log |-> row_events(ed, i, FALSE), res |-> row_line(rd, ed, i)]
    ELSE IF fail = "write" /\ w = i + 1 THEN [log |-> row_events(ed, i, FALSE), res |-> Io]
    ELSE after_events(row_events(ed, i, TRUE), write_rows(rd, ed, i + 1, fail, w))

\* the bytes save writes to the temp file when nothing fails
RECURSIVE rows_bytes(_, _, _)
rows_bytes(rd, ed, i) ==
    IF i >= row_count(rd) THEN <<>>
    ELSE row_line(rd, ed, i).val \o <<LF>> \o rows_bytes(rd, ed, i + 1)

temp_contents(rd, ed) == header_line(rd) \o <<LF>> \o rows_bytes(rd, ed, 0)

\* faulty variant of save_early_return: the rows were being written over the file
\* itself, which is left holding the header alone
save_early_return_in_place(dk, rd, ed, res, events) ==
    [result |-> res, disk |-> IF IsOk(res) THEN dk ELSE header_line(rd) \o <<LF>>,
     reader |-> rd, edits |-> ed, log |-> events]

\* faulty variant of save_early_return: the temp file is kept when an error is returned
save_early_return_keeps_temp(dk, rd, ed, res, events) ==
    [result |-> res, disk |-> dk, reader |-> rd, edits |-> ed,
     log |-> IF IsOk(res) THEN events ELSE Front(events)]

\* faulty variant of save_early_return: the temp file is created before the edit map
\* is looked at, so the no-op creates and deletes one
save_early_return_after_temp(dk, rd, ed, res, events) ==
    [result |-> res, disk |-> dk, reader |-> rd, edits |-> ed,
     log |-> IF IsOk(res) THEN << <<"create_temp", 0>>, <<"delete_temp", 0>> >> ELSE events]

\* an early return of save, the no-op on an empty edit map or an error passed on by
\* `?`: neither the file nor the editor was touched, and the temp file, if created,
\* is deleted as it goes out of scope
save_early_return(dk, rd, ed, res, events) ==
    [result |-> res, disk |-> dk, reader |-> rd, edits |-> ed, log |-> events]

\* faulty variant of save_not_reopened: the edit map is cleared before the re-open
save_not_reopened_cleared(dk, rd, ed, res, events) ==
    [result |-> res, disk |-> temp_contents(rd, ed), reader |-> rd, edits |-> NoEdits,
     log |-> events]

\* save returning the error of the re-open: the rename has replaced the file, the
\* editor keeps its reader and its edits
save_not_reopened(dk, rd, ed, res, events) ==
    [result |-> res, disk |-> temp_contents(rd, ed), reader |-> rd, edits |-> ed,
     log |-> events]

\* faulty variant of save_done: the header is read again from the old mapping to
\* compare it with the new file
save_done_rereads(dk, rd, ed, fresh, events) ==
    [result |-> Ok(<<>>), disk |-> temp_contents(rd, ed), reader |-> fresh,
     edits |-> NoEdits, log |-> events \o << <<"read_raw", 0>> >>]

\* faulty variant of save_done: the edit map is not cleared
save_done_keeps_edits(dk, rd, ed, fresh, events) ==
    [result |-> Ok(<<>>), disk |-> temp_contents(rd, ed), reader |-> fresh,
     edits |-> ed, log |-> events]

\* save returning Ok: the file replaced, the fresh reader installed, the edits cleared
save_done(dk, rd, ed, fresh, events) ==
    [result |-> Ok(<<>>), disk |-> temp_contents(rd, ed), reader |-> fresh,
     edits |-> NoEdits, log |-> events]

\* CsvEditor::save from the state (dk, rd, ed) with the fault (fail, w): what it
\* returns, the state it leaves and its events
save_outcome(dk, rd, ed, fail, w) ==
    LET rows == write_rows(rd, ed, 0, fail, w)
        created == << <<"create_temp", 0>> >>
        deleted == << <<"delete_temp", 0>> >>
        body == created \o << <<"write", 0>> >> \o rows.log
        renamed == body \o << <<"flush", 0>>, <<"rename", 0>> >>
        fresh == open(temp_contents(rd, ed))
    IN  IF DOMAIN ed = {} THEN save_early_return(dk, rd, ed, Ok(<<>>), <<>>)
        ELSE IF fail = "tempfile" THEN save_early_return(dk, rd, ed, Io, <<>>)
        ELSE IF fail = "write" /\ w = 0 THEN save_early_return(dk, rd, ed, Io, created \o deleted)
        ELSE IF ~IsOk(rows.res) THEN save_early_return(dk, rd, ed, rows.res, body \o deleted)
        ELSE IF fail = "flush" THEN save_early_return(dk, rd, ed, Io, body \o deleted)
        ELSE IF fail = "rename"
             THEN save_early_return(dk, rd, ed, Io, body \o << <<"flush", 0>> >> \o deleted)
        ELSE IF fail = "reopen" THEN save_not_reopened(dk, rd, ed, Io, renamed)
        ELSE IF ~IsOk(fresh) THEN save_not_reopened(dk, rd, ed, fresh, renamed)
        ELSE save_done(dk, rd, ed, fresh.val,
                       renamed \o << <<"map_new", 0>>, <<"unmap_old", 0>> >>)

\* the state a call of save leaves behind: the file, the reader, the edits
\* and the value returned to the caller
save_leaves(out) ==
    /\ result' = out.result
    /\ disk' = out.disk
    /\ reader' = out.reader
    /\ edits' = out.edits
    /\ log' = out.log
    /\ written' = IF IsOk(out.result) THEN NoEdits ELSE written

save(fail, w) ==
    /\ nops < MaxOps
    /\ nops' = nops + 1
    /\ fail = "write" \/ w = 0
    /\ DOMAIN edits = {} => fail = "none"
    /\ op' = [Call("save", w, 0, <<>>) EXCEPT !.fail = fail]
    /\ save_leaves(save_outcome(disk, reader, edits, fail, w))

Next ==
    \/ \E row \in 0..row_count(reader), fields \in FieldsPool :
           set_row(row, fields) /\ UNCHANGED <<search_vars, doc_vars>>
    \/ \E row \in 0..row_count(reader), col \in Cols, value \in ValuePool :
           set_cell(row, col, value) /\ UNCHANGED <<search_vars, doc_vars>>
    \/ \E row \in 0..row_count(reader) : revert_row(row) /\ UNCHANGED <<search_vars, doc_vars>>
    \/ revert_all /\ UNCHANGED <<search_vars, doc_vars>>
    \/ \E fail \in FailPoints, w \in 0..row_count(reader) :
           save(fail, w) /\ UNCHANGED <<search_vars, doc_vars>>

Spec == Init /\ [][Next]_vars

(* --------------------------- reads of one reader ---------------------- *)
\* ---- bound of the exploration: bytes of a file
MaxFileLen == 5

\* ---- the files: every sequence of these bytes up to MaxFileLen, the empty one included
FileBytes == { Byte.x, COMMA, LF, CR, SP, Byte.bad }
ReaderFiles == UNION { [1..n -> FileBytes] : n \in 0..MaxFileLen }

\* the reader of a file open() refused
NoReader == [mmap |-> <<>>, line_index |-> <<>>, headers |-> <<>>, delimiter |-> 0]

\* CsvReader::open on any file: result holds what it returned
ReaderInit ==
    /\ disk \in ReaderFiles
    /\ result = open(disk)
    /\ reader = IF IsOk(open(disk)) THEN open(disk).val ELSE NoReader
    /\ op = Call("open", 0, 0, <<>>)
    /\ edits = NoEdits
    /\ written = NoEdits
    /\ log = <<>>
    /\ nops = 0
    /\ jobs = <<>>
    /\ found = <<>>
    /\ mutex = 0
    /\ threads = NoCalls

call_get_row_raw(row) ==
    /\ reader # NoReader
    /\ op' = Call("get_row_raw", row, 0, <<>>)
    /\ result' = get_row_raw(reader, row)
    /\ UNCHANGED <<disk, reader, edits, written, log, nops, jobs, found>>

call_get_row(row) ==
    /\ reader # NoReader
    /\ op' = Call("get_row", row, 0, <<>>)
    /\ result' = reader_get_row(reader, row)
    /\ UNCHANGED <<disk, reader, edits, written, log, nops, jobs, found>>

\* get_rows(start, end): the call record holds start as row and end as col
call_get_rows(start, end) ==
    /\ reader # NoReader
    /\ op' = Call("get_rows", start, end, <<>>)
    /\ result' = get_rows(reader, start, end)
    /\ UNCHANGED <<disk, reader, edits, written, log, nops, jobs, found>>

ReaderNext ==
    \/ \E row \in 0..row_count(reader) : call_get_row_raw(row) /\ UNCHANGED doc_vars
    \/ \E row \in 0..row_count(reader) : call_get_row(row) /\ UNCHANGED doc_vars
    \/ \E start, end \in 0..(row_count(reader) + 1) :
           call_get_rows(start, end) /\ UNCHANGED doc_vars

ReaderSpec == ReaderInit /\ [][ReaderNext]_vars

(* ------------------- detect_delimiter on a growing file --------------- *)
\* ---- sample data: headers of two fields under ',' and of one or three under ';'
DetectHeaderPool ==
    { <<Byte.a, COMMA, Byte.b>>,
      <<Byte.a, COMMA, Byte.b, SEMICOLON, Byte.h, SEMICOLON, Byte.x>> }
\* data lines: two fields under ',' and one, two or three under ';'
DetectRowPool ==
    { <<Byte.x, COMMA, Byte.y>>,
      <<Byte.x, SEMICOLON, Byte.y, COMMA, Byte.x>>,
      <<Byte.x, SEMICOLON, Byte.y, COMMA, Byte.x, SEMICOLON, Byte.y>> }
DetectRowCounts == {1, 2}
DetectFiles ==
    { join_lines(<<h>> \o rows, <<LF>>) :
          h \in DetectHeaderPool,
          rows \in UNION { [1..n -> DetectRowPool] : n \in DetectRowCounts } }

DetectInit ==
    /\ disk \in DetectFiles
    /\ reader = open(disk).val
    /\ op = Call("open", 0, 0, <<>>)
    /\ result = Ok(<<>>)
    /\ edits = NoEdits
    /\ written = NoEdits
    /\ log = <<>>
    /\ nops = 0
    /\ jobs = <<>>
    /\ found = <<>>
    /\ mutex = 0
    /\ threads = NoCalls

\* a copy of data row `row` is added at the end of the file, which is opened again
append_copy(row) ==
    /\ nops < MaxOps
    /\ nops' = nops + 1
    /\ row < row_count(reader)
    /\ op' = Call("append_copy", row, 0, get_row_raw(reader, row).val)
    /\ disk' = disk \o get_row_raw(reader, row).val \o <<LF>>
    /\ reader' = open(disk').val
    /\ result' = Ok(<<>>)
    /\ UNCHANGED <<edits, written, log, jobs, found>>

DetectNext == \E row \in 0..(row_count(reader) - 1) : append_copy(row) /\ UNCHANGED doc_vars

DetectSpec == DetectInit /\ [][DetectNext]_vars

(* ------------------- detect_delimiter on sampled lines ---------------- *)
\* ---- bound of the exploration: lines of the input, one more than the sample holds
MaxLines == 21

\* ---- the lines: ',' and ';' tied on two fields, ';' alone, a ',' inside quotes,
\* three fields under ',', '|' and tab tied with a \r before the line end, a blank line
SampleLinePool ==
    { <<Byte.a, COMMA, Byte.b, SEMICOLON, Byte.h>>,
      <<Byte.x, SEMICOLON, Byte.y>>,
      <<QUOTE, Byte.x, COMMA, Byte.y, QUOTE, SEMICOLON, Byte.x>>,
      <<Byte.x, COMMA, Byte.y, COMMA, Byte.x>>,
      <<Byte.x, PIPE, Byte.y, TAB, Byte.x, CR>>,
      <<>> }

\* the input given to detect_delimiter, empty at first
SampleInit ==
    /\ disk = <<>>
    /\ op = [name |-> "input", lines |-> <<>>]
    /\ result = Ok(<<>>)
    /\ reader = NoReader
    /\ edits = NoEdits
    /\ written = NoEdits
    /\ log = <<>>
    /\ nops = 0
    /\ jobs = <<>>
    /\ found = <<>>
    /\ mutex = 0
    /\ threads = NoCalls

\* the input grows by one line: a first line repeated, then a second line repeated
append_line(line) ==
    /\ op.name = "input"
    /\ Len(op.lines) < MaxLines
    /\ IF op.lines = <<>> THEN TRUE
       ELSE line = Last(op.lines) \/ \A k \in 1..Len(op.lines) : op.lines[k] = op.lines[1]
    /\ op' = [op EXCEPT !.lines = Append(op.lines, line)]
    /\ disk' = disk \o line \o <<LF>>
    /\ UNCHANGED <<result, reader, edits, written, log, nops, jobs, found>>

call_detect_delimiter ==
    /\ op.name = "input"
    /\ op' = [op EXCEPT !.name = "detect_delimiter"]
    /\ result' = Ok(detect_delimiter(disk))
    /\ UNCHANGED <<disk, reader, edits, written, log, nops, jobs, found>>

SampleNext ==
    \/ \E line \in SampleLinePool : append_line(line) /\ UNCHANGED doc_vars
    \/ call_detect_delimiter /\ UNCHANGED doc_vars

SampleSpec == SampleInit /\ [][SampleNext]_vars

(* ------------------- serialize_row followed by parse_row -------------- *)
\* ---- bound of the exploration: bytes of a field
MaxFieldLen == 2

\* ---- the field sequences: up to two fields of these bytes, the empty field and
\* the empty sequence included
FieldBytes == { Byte.x, COMMA, QUOTE, LF, CR }
FieldSet == UNION { [1..n -> FieldBytes] : n \in 0..MaxFieldLen }
FieldCounts == {0, 1, 2}
FieldSeqs == UNION { [1..n -> FieldSet] : n \in FieldCounts }

\* a field sequence and a delimiter, nothing called yet
RoundTripInit ==
    /\ op \in { [name |-> "fields", fields |-> F, delimiter |-> Delimiters[k]] :
                    F \in FieldSeqs, k \in 1..Len(Delimiters) }
    /\ result = Ok(<<>>)
    /\ disk = <<>>
    /\ reader = NoReader
    /\ edits = NoEdits
    /\ written = NoEdits
    /\ log = <<>>
    /\ nops = 0
    /\ jobs = <<>>
    /\ found = <<>>
    /\ mutex = 0
    /\ threads = NoCalls

call_serialize_row ==
    /\ op.name = "fields"
    /\ op' = [op EXCEPT !.name = "serialize_row"]
    /\ result' = Ok(serialize_row(op.fields, op.delimiter))
    /\ UNCHANGED <<disk, reader, edits, written, log, nops, jobs, found>>

\* parse_row on the line serialize_row returned
call_parse_row ==
    /\ op.name = "serialize_row"
    /\ op' = [op EXCEPT !.name = "parse_row"]
    /\ result' = Ok(parse_row(result.val, op.delimiter))
    /\ UNCHANGED <<disk, reader, edits, written, log, nops, jobs, found>>

RoundTripNext ==
    \/ call_serialize_row /\ UNCHANGED doc_vars
    \/ call_parse_row /\ UNCHANGED doc_vars

RoundTripSpec == RoundTripInit /\ [][RoundTripNext]_vars

(* ------------------------------ searcher.rs --------------------------- *)
\* str::to_lowercase over the bytes that occur: A..Z become a..z
to_lowercase(text) ==
    [k \in 1..Len(text) |-> IF text[k] >= 65 /\ text[k] <= 90 THEN text[k] + 32 ELSE text[k]]

\* str::contains
contains(text, pat) ==
    \E i \in 0..(Len(text) - Len(pat)) : SubSeq(text, i + 1, i + Len(pat)) = pat

\* SearchOptions; column is <<>> for None and <<name>> for Some(name)
SearchOptions(column, case_insensitive, max_results) ==
    [column |-> column, case_insensitive |-> case_insensitive, max_results |-> max_results]

\* faulty variant of column_index: the header is found whatever its case
column_index_any_case(rd, options) ==
    IF options.column = <<>> THEN Ok(<<>>)
    ELSE LET lower == [k \in 1..Len(rd.headers) |-> to_lowercase(rd.headers[k])]
             idx == Position(lower, to_lowercase(options.column[1]))
         IN  IF idx < 0 THEN Err("ColumnNotFound", options.column[1], 0) ELSE Ok(<<idx>>)

\* the column looked up once before the scan: Ok(<<>>) for None, Ok(<<idx>>) for Some(idx)
column_index(rd, options) ==
    IF options.column = <<>> THEN Ok(<<>>)
    ELSE LET idx == Position(rd.headers, options.column[1])
         IN  IF idx < 0 THEN Err("ColumnNotFound", options.column[1], 0) ELSE Ok(<<idx>>)

\* the test made on the raw line and on the field
matches(text, query, options) ==
    IF options.case_insensitive
    THEN contains(to_lowercase(text), to_lowercase(query))
    ELSE contains(text, query)

\* faulty variant of filter_row: the field tested is the first one, not the column's
filter_row_first_field(rd, query, options, col, row_num) ==
    LET raw == get_row_raw(rd, row_num)
        fields == parse_row(raw.val, rd.delimiter)
    IN  IF ~IsOk(raw) THEN <<>>
        ELSE IF ~matches(raw.val, query, options) THEN <<>>
        ELSE IF col # <<>> /\ col[1] >= Len(fields) THEN <<>>
        ELSE IF col # <<>> /\ ~matches(fields[1], query, options) THEN <<>>
        ELSE << [row_num |-> row_num, fields |-> fields] >>

\* faulty variant of filter_row: with a column named, the field is not tested
filter_row_raw_only(rd, query, options, col, row_num) ==
    LET raw == get_row_raw(rd, row_num)
        fields == parse_row(raw.val, rd.delimiter)
    IN  IF ~IsOk(raw) THEN <<>>
        ELSE IF ~matches(raw.val, query, options) THEN <<>>
        ELSE IF col # <<>> /\ col[1] >= Len(fields) THEN <<>>
        ELSE << [row_num |-> row_num, fields |-> fields] >>

\* the closure of filter_map on one row: no result or one
filter_row(rd, query, options, col, row_num) ==
    LET raw == get_row_raw(rd, row_num)
        fields == parse_row(raw.val, rd.delimiter)
    IN  IF ~IsOk(raw) THEN <<>>
        ELSE IF ~matches(raw.val, query, options) THEN <<>>
        ELSE IF col # <<>> /\ col[1] >= Len(fields) THEN <<>>
        ELSE IF col # <<>> /\ ~matches(fields[col[1] + 1], query, options) THEN <<>>
        ELSE << [row_num |-> row_num, fields |-> fields] >>

\* one job of the parallel iterator: the rows lo..hi-1 filtered in order
RECURSIVE job_hits(_, _, _, _, _, _)
job_hits(rd, query, options, col, lo, hi) ==
    IF lo >= hi THEN <<>>
    ELSE filter_row(rd, query, options, col, lo) \o job_hits(rd, query, options, col, lo + 1, hi)

\* the hits of job k among the finished jobs
hits_of(fnd, k) == (CHOOSE f \in { fnd[j] : j \in 1..Len(fnd) } : f.job = k).hits

\* faulty variant of collect: the hits are joined in the order the jobs finished
RECURSIVE collect_as_finished(_, _, _)
collect_as_finished(fnd, k, n) ==
    IF k > n THEN <<>> ELSE fnd[k].hits \o collect_as_finished(fnd, k + 1, n)

\* collect(): the hits of the jobs k..n joined in the order of the jobs, which is
\* the order of the rows
RECURSIVE collect(_, _, _)
collect(fnd, k, n) ==
    IF k > n THEN <<>> ELSE hits_of(fnd, k) \o collect(fnd, k + 1, n)

\* faulty variant of take: the last max_results entries are kept
take_last(results, options) ==
    IF options.max_results > 0 /\ Len(results) > options.max_results
    THEN SubSeq(results, Len(results) - options.max_results + 1, Len(results))
    ELSE results

\* the cut to max_results after the collection
take(results, options) ==
    IF options.max_results > 0 /\ Len(results) > options.max_results
    THEN SubSeq(results, 1, options.max_results)
    ELSE results

\* a search whose workers have not all finished
Pending == [tag |-> "Pending", val |-> <<>>, a |-> 0, b |-> 0]

\* ---- bound of the exploration: jobs the rows of one search are split into
MaxJobs == 2

\* ---- sample data of the searches
SearchHeader == <<Byte.a, COMMA, Byte.b>>
\* data lines: the query in the first column, in the second, in capitals in a row of
\* one field, in a row that is not UTF-8, and around a quote in a quoted field
SearchRowPool ==
    { <<Byte.x, COMMA, Byte.y>>, <<Byte.y, COMMA, Byte.x>>, <<Byte.X>>, <<Byte.x, Byte.bad>>,
      <<QUOTE, Byte.x, QUOTE, QUOTE, Byte.y, QUOTE, COMMA, Byte.y>> }
SearchRowCounts == {0, 1, 2, 3}
SearchFiles ==
    { join_lines(<<SearchHeader>> \o rows, <<LF>>) :
          rows \in UNION { [1..n -> SearchRowPool] : n \in SearchRowCounts } }
QueryPool == { <<Byte.x>>, <<Byte.X>>, <<Byte.x, QUOTE, Byte.y>> }
\* no column, the two columns, and a name that differs from a header by its case
ColumnPool == { <<>>, << <<Byte.a>> >>, << <<Byte.b>> >>, << <<Byte.A>> >> }
MaxResultsPool == {0, 1, 2}
OptionsPool ==
    { SearchOptions(c, ci, m) : c \in ColumnPool, ci \in BOOLEAN, m \in MaxResultsPool }

\* the jobs cut at the offsets of cuts: contiguous ranges <<lo, hi>> covering lo..n-1
RECURSIVE split_at(_, _, _)
split_at(cuts, lo, n) ==
    IF cuts = {} THEN << <<lo, n>> >>
    ELSE LET c == CHOOSE x \in cuts : \A z \in cuts : x <= z
         IN  << <<lo, c>> >> \o split_at(cuts \ {c}, c, n)

\* the ways the parallel iterator may split 0..n-1 among at most MaxJobs jobs
Splits(n) ==
    IF n = 0 THEN { <<>> }
    ELSE { split_at(cuts, 0, n) : cuts \in { c \in SUBSET (1..(n - 1)) : Cardinality(c) < MaxJobs } }

SearchInit ==
    /\ disk \in SearchFiles
    /\ reader = open(disk).val
    /\ edits = NoEdits
    /\ written = NoEdits
    /\ op = Call("open", 0, 0, <<>>)
    /\ result = Ok(<<>>)
    /\ log = <<>>
    /\ nops = 0
    /\ jobs = <<>>
    /\ found = <<>>
    /\ mutex = 0
    /\ threads = NoCalls

\* search up to the start of the parallel scan: the column is looked up, the rows split
search_begin(query, options, split) ==
    /\ op' = [name |-> "search", query |-> query, options |-> options]
    /\ IF IsOk(column_index(reader, options))
       THEN result' = Pending /\ jobs' = split
       ELSE result' = column_index(reader, options) /\ jobs' = <<>>
    /\ found' = <<>>
    /\ UNCHANGED <<disk, reader, edits, written, log, nops>>

\* the one search made on a reader just opened
search_start(query, options, split) ==
    /\ op.name = "open"
    /\ search_begin(query, options, split)

\* a worker finishes job k
job_done(k) ==
    /\ op.name = "search" /\ result.tag = "Pending"
    /\ k \in 1..Len(jobs)
    /\ \A j \in 1..Len(found) : found[j].job # k
    /\ found' = Append(found, [job |-> k,
                                hits |-> job_hits(reader, op.query, op.options,
                                                  column_index(reader, op.options).val,
                                                  jobs[k][1], jobs[k][2])])
    /\ UNCHANGED <<disk, reader, edits, written, op, result, log, nops, jobs>>

\* all the workers have finished: the results are collected, cut and returned
search_return ==
    /\ op.name = "search" /\ result.tag = "Pending"
    /\ Len(found) = Len(jobs)
    /\ result' = Ok(take(collect(found, 1, Len(jobs)), op.options))
    /\ UNCHANGED <<disk, reader, edits, written, op, log, nops, jobs, found>>

SearchNext ==
    \/ \E query \in QueryPool, options \in OptionsPool, split \in Splits(row_count(reader)) :
           search_start(query, options, split) /\ UNCHANGED doc_vars
    \/ \E k \in 1..MaxJobs : job_done(k) /\ UNCHANGED doc_vars
    \/ search_return /\ UNCHANGED doc_vars

SearchSpec == SearchInit /\ [][SearchNext]_vars

(* ------------------- callers of one CsvDocument (binding) ------------- *)
\* ---- the document, the calls and their arguments
DocFiles == { <<Byte.a, COMMA, Byte.b, LF, Byte.x, COMMA, Byte.y, LF, Byte.y, COMMA, Byte.x, LF>> }
DocCalls == { "get_info", "get_row", "get_rows", "search", "set_cell", "set_row",
              "revert_row", "revert_all", "save", "edit_count", "has_changes" }
DocFields == <<<<Byte.y>>, <<Byte.y>>>>
DocValue == <<Byte.y>>
DocQuery == <<Byte.x>>

\* CsvDocument::open
DocInit ==
    /\ disk \in DocFiles
    /\ reader = open(disk).val
    /\ edits = NoEdits
    /\ written = NoEdits
    /\ op = Call("open", 0, 0, <<>>)
    /\ result = Ok(<<>>)
    /\ log = <<>>
    /\ nops = 0
    /\ jobs = <<>>
    /\ found = <<>>
    /\ mutex = 0
    /\ threads = NoCalls

\* thread t is between taking the lock and dropping the guard
Inside(t) == threads[t].pc \in {"holding", "scanning", "done"}

\* a thread calls a method of the document and reaches self.editor.lock()
doc_call(t, name) ==
    /\ threads[t].pc = "idle"
    /\ threads' = [threads EXCEPT ![t] = [pc |-> "waiting", call |-> name]]
    /\ UNCHANGED <<disk, reader, edits, written, op, result, log, nops, jobs, found, mutex>>

\* faulty variant of doc_lock: the lock is taken whoever holds it
doc_lock_unguarded(t) ==
    /\ threads[t].pc = "waiting"
    /\ mutex' = t
    /\ threads' = [threads EXCEPT ![t].pc = "holding"]
    /\ UNCHANGED <<disk, reader, edits, written, op, result, log, nops, jobs, found>>

\* self.editor.lock() returns the guard once no other thread holds it
doc_lock(t) ==
    /\ threads[t].pc = "waiting"
    /\ mutex = 0
    /\ mutex' = t
    /\ threads' = [threads EXCEPT ![t].pc = "holding"]
    /\ UNCHANGED <<disk, reader, edits, written, op, result, log, nops, jobs, found>>

\* the range of rows the binding's get_rows returns: end is clamped, each row is
\* read through the editor, the first error is returned
RECURSIVE doc_rows_from(_, _, _, _, _)
doc_rows_from(rd, ed, i, end, rows) ==
    IF i >= end THEN Ok(rows)
    ELSE IF ~IsOk(editor_get_row(rd, ed, i)) THEN editor_get_row(rd, ed, i)
    ELSE doc_rows_from(rd, ed, i + 1, end, Append(rows, editor_get_row(rd, ed, i).val))

doc_get_rows(rd, ed, start, end) ==
    doc_rows_from(rd, ed, start, IF end < row_count(rd) THEN end ELSE row_count(rd), <<>>)

\* what a method that only reads returns
doc_read_value(name, row, end) ==
    CASE name = "get_info"    -> Ok(<<row_count(reader), reader.headers, reader.delimiter>>)
      [] name = "get_row"     -> get_row(row)
      [] name = "get_rows"    -> doc_get_rows(reader, edits, row, end)
      [] name = "edit_count"  -> Ok(edit_count)
      [] name = "has_changes" -> Ok(has_changes)

\* the body of get_info, get_row, get_rows, edit_count, has_changes
doc_read(t, row, end) ==
    /\ threads[t].pc = "holding"
    /\ threads[t].call \in {"get_info", "get_row", "get_rows", "edit_count", "has_changes"}
    /\ op' = Call(threads[t].call, row, end, <<>>)
    /\ result' = doc_read_value(threads[t].call, row, end)
    /\ threads' = [threads EXCEPT ![t].pc = "done"]
    /\ UNCHANGED <<disk, reader, edits, written, log, nops, jobs, found, mutex>>

\* the body of set_cell, set_row, revert_row, revert_all, save: the editor's method
doc_write(t, row) ==
    /\ threads[t].pc = "holding"
    /\ CASE threads[t].call = "set_cell"   -> set_cell(row, 0, DocValue)
         [] threads[t].call = "set_row"    -> set_row(row, DocFields)
         [] threads[t].call = "revert_row" -> revert_row(row)
         [] threads[t].call = "revert_all" -> revert_all
         [] threads[t].call = "save"       -> save("none", 0)
         [] OTHER -> FALSE
    /\ threads' = [threads EXCEPT ![t].pc = "done"]
    /\ UNCHANGED <<jobs, found, mutex>>

\* the body of search up to the parallel scan of editor.reader()
doc_search(t, options, split) ==
    /\ threads[t].pc = "holding"
    /\ threads[t].call = "search"
    /\ search_begin(DocQuery, options, split)
    /\ threads' = [threads EXCEPT ![t].pc =
                      IF IsOk(column_index(reader, options)) THEN "scanning" ELSE "done"]
    /\ UNCHANGED mutex

\* a worker of the search of thread t finishes a job
doc_job_done(t, k) ==
    /\ threads[t].pc = "scanning"
    /\ job_done(k)
    /\ UNCHANGED <<mutex, threads>>

\* the search of thread t collects its results
doc_search_return(t) ==
    /\ threads[t].pc = "scanning"
    /\ search_return
    /\ threads' = [threads EXCEPT ![t].pc = "done"]
    /\ UNCHANGED mutex

\* the method returns: the guard is dropped
doc_return(t) ==
    /\ threads[t].pc = "done"
    /\ mutex' = IF mutex = t THEN 0 ELSE mutex
    /\ threads' = [threads EXCEPT ![t] = [pc |-> "returned", call |-> "none"]]
    /\ UNCHANGED <<disk, reader, edits, written, op, result, log, nops, jobs, found>>

\* no column, and a column the file does not have
DocOptions == { SearchOptions(<<>>, FALSE, 0), SearchOptions(<< <<Byte.A>> >>, FALSE, 0) }

DocNext ==
    \E t \in Threads :
        \/ \E name \in DocCalls : doc_call(t, name)
        \/ doc_lock(t)
        \/ \E row \in 0..row_count(reader), end \in {row_count(reader)} : doc_read(t, row, end)
        \/ \E row \in {0} : doc_write(t, row)
        \/ \E options \in DocOptions, split \in Splits(row_count(reader)) :
               doc_search(t, options, split)
        \/ \E k \in 1..MaxJobs : doc_job_done(t, k)
        \/ doc_search_return(t)
        \/ doc_return(t)

DocSpec == DocInit /\ [][DocNext]_vars

(* ------------------------------ claims -------------------------------- *)
SaveCalled == op.name = "save"
SaveFailed == op.name = "save" /\ ~IsOk(result)
\* a save that wrote the file: it returned Ok and was not the no-op
SaveWrote == op.name = "save" /\ IsOk(result) /\ log # <<>>
Logged(events, name) == \E k \in 1..Len(events) : events[k][1] = name

\* C1: a save that returns an error, at whatever step, leaves the bytes of the file
\* and the editor (edit map and reader) as they were before the call.
C1_FailedSaveChangesNothing ==
    [][SaveFailed' => (disk' = disk /\ edits' = edits /\ reader' = reader)]_vars

\* C2: a save that fails before the rename (temp-file creation, a row read, a write,
\* the flush) leaves the file intact; a save whose rename fails returns Io and has
\* not changed the edit map.
C2_FailureUpToRename ==
    [][(SaveFailed' /\ ~Logged(log', "rename")) =>
          /\ disk' = disk
          /\ (op'.fail = "rename" /\ Logged(log', "flush")) =>
                (result' = Io /\ edits' = edits)]_vars

C2_Witness ==
    /\ SaveFailed /\ op.fail = "rename" /\ Logged(log, "flush")
    /\ result = Io /\ has_changes

\* C3: after a successful save with a non-empty edit map the file is the header line
\* and \n, then for each row in ascending order its line and \n: the serialized
\* pending fields of an edited row, the raw bytes of the mapping for any other row.
RECURSIVE C3_Rows(_, _, _)
C3_Rows(rd, ed, i) ==
    IF i >= row_count(rd) THEN <<>>
    ELSE (IF i \in DOMAIN ed THEN serialize_row(ed[i], rd.delimiter)
          ELSE get_row_raw(rd, i).val) \o <<LF>> \o C3_Rows(rd, ed, i + 1)

C3_SavedFileContents ==
    [][(SaveCalled' /\ IsOk(result') /\ DOMAIN edits # {}) =>
          disk' = serialize_row(reader.headers, reader.delimiter) \o <<LF>>
                  \o C3_Rows(reader, edits, 0)]_vars

\* a saved file that holds an unedited row whose quoting a re-serialization would drop
C3_Witness ==
    /\ SaveWrote
    /\ \E k \in 1..(Len(disk) - 4) :
          SubSeq(disk, k, k + 4) = <<LF, QUOTE, Byte.x, QUOTE, COMMA>>

\* C4: after a successful save, get_row(i) of every row is the field sequence last
\* set for it before the save, or the row parsed from the file when it was not edited.
C4_SavedRowsReadBack ==
    [][(SaveCalled' /\ IsOk(result')) =>
          \A i \in 0..(row_count(reader) - 1) :
              editor_get_row(reader', edits', i) =
                  IF i \in DOMAIN written THEN Ok(written[i]) ELSE reader_get_row(reader, i)]_vars

\* C5: a successful save leaves row_count unchanged.
C5_SaveKeepsRowCount ==
    [][(SaveCalled' /\ IsOk(result')) => row_count(reader') = row_count(reader)]_vars

\* C6: has_changes is true exactly when edit_count > 0; a successful set_cell or
\* set_row leaves the editor Dirty; revert_all and a successful save leave it Clean
\* with edit_count 0.
C6_CleanAndDirty ==
    /\ has_changes <=> edit_count > 0
    /\ (op.name \in {"set_cell", "set_row"} /\ IsOk(result)) => has_changes
    /\ (op.name = "revert_all" \/ (SaveCalled /\ IsOk(result))) =>
          (~has_changes /\ edit_count = 0)

C6_Witness == SaveWrote /\ ~has_changes

\* C7 as stated: after revert_row(i) the editor is Clean.
C7_RevertRowLeavesClean == op.name = "revert_row" => ~has_changes

\* C7 amended: revert_row(i) leaves row i without a pending edit and keeps the edits
\* of the other rows, so the editor is Clean after it exactly when no other row had
\* a pending edit.
C7_RevertRowCleanIffNoOtherEdit ==
    [][op'.name = "revert_row" =>
          /\ op'.row \notin DOMAIN edits'
          /\ ~has_changes' <=> (DOMAIN edits \ {op'.row} = {})]_vars

\* an edit removed while another row keeps its own
C7_Witness == op.name = "revert_row" /\ Logged(log, "removed") /\ has_changes

\* C8: between saves, get_row(i) is the field sequence last stored for row i when
\* the row was written since its last revert, and otherwise the reader's row i,
\* RowOutOfRange when i >= row_count.
C8_GetRowSeesLastWrite ==
    \A i \in 0..(row_count(reader) + 1) :
        get_row(i) = IF i \in DOMAIN written THEN Ok(written[i])
                     ELSE IF i >= row_count(reader)
                          THEN Err("RowOutOfRange", i, row_count(reader))
                     ELSE reader_get_row(reader, i)

\* one row reads as its pending edit while another, written and then reverted,
\* reads as the row of the file again
C8_Witness ==
    /\ op.name = "revert_row" /\ Logged(log, "removed")
    /\ IsOk(reader_get_row(reader, op.row))
    /\ get_row(op.row) = reader_get_row(reader, op.row)
    /\ \E i \in DOMAIN written : get_row(i) # reader_get_row(reader, i)

\* C9: every key of the edit map is < row_count; set_row and set_cell on a row
\* >= row_count fail with RowOutOfRange(row, row_count) and leave the edit map as
\* it was; set_row on a row < row_count stores the fields whatever their number.
C9_KeysInRange ==
    /\ [](\A k \in DOMAIN edits : k < row_count(reader))
    /\ [][(op'.name \in {"set_row", "set_cell"} /\ op'.row >= row_count(reader)) =>
             (result' = Err("RowOutOfRange", op'.row, row_count(reader)) /\ edits' = edits)]_vars
    /\ [][(op'.name = "set_row" /\ op'.row < row_count(reader)) =>
             (IsOk(result') /\ op'.row \in DOMAIN edits' /\ edits'[op'.row] = op'.val)]_vars

\* a set_row refused on a dirty editor whose pending edit has fewer fields than the header
C9_Witness ==
    /\ op.name = "set_row" /\ result.tag = "RowOutOfRange"
    /\ \E k \in DOMAIN edits : Len(edits[k]) < Len(reader.headers)

\* C10: set_cell(i, col, value) takes the current row i (the pending edit, else the
\* parsed row of the file), replaces position col only and stores it as row i's
\* edit, one edit however many cells of the row were set; with col >= the current
\* field count it fails with ColumnNotFound and the edit map is as it was.
C10_SetCell ==
    [][op'.name = "set_cell" =>
          LET i == op'.row
              cur == editor_get_row(reader, edits, i)
          IN  IF ~IsOk(cur) THEN result' = cur /\ edits' = edits
              ELSE IF op'.col >= Len(cur.val)
                   THEN result'.tag = "ColumnNotFound" /\ edits' = edits
              ELSE /\ IsOk(result')
                   /\ DOMAIN edits' = DOMAIN edits \cup {i}
                   /\ \A k \in DOMAIN edits \ {i} : edits'[k] = edits[k]
                   /\ Len(edits'[i]) = Len(cur.val)
                   /\ \A c \in 1..Len(cur.val) :
                         edits'[i][c] = IF c = op'.col + 1 THEN op'.val[1] ELSE cur.val[c]]_vars

\* two cells of one row set one after the other: one edit holding both values
C10_Witness ==
    /\ op.name = "set_cell" /\ IsOk(result) /\ edit_count = 1
    /\ \E v \in ValuePool : edits[op.row] = <<v, v>>

\* C11: revert_row(i) never fails and removes row i's entry only: the other rows'
\* pending edits are as they were, nothing changes when row i has no pending edit
\* (i >= row_count included), and afterwards get_row(i) is what the reader gives
\* for row i of the file.
C11_RevertRowOnly ==
    [][op'.name = "revert_row" =>
          LET i == op'.row IN
          /\ IsOk(result')
          /\ DOMAIN edits' = DOMAIN edits \ {i}
          /\ \A k \in DOMAIN edits \ {i} : edits'[k] = edits[k]
          /\ (i \notin DOMAIN edits => edits' = edits)
          /\ disk' = disk /\ reader' = reader
          /\ editor_get_row(reader', edits', i) = reader_get_row(reader, i)]_vars

\* a pending edit of a readable row reverted while another row keeps its edit
C11_Witness ==
    /\ op.name = "revert_row" /\ Logged(log, "removed") /\ edit_count = 1
    /\ op.row \notin DOMAIN edits
    /\ IsOk(get_row(op.row))

\* C12: save() on an empty edit map returns Ok and does nothing: no temp file, no
\* write, no rename, no mapping made or released, the file and the reader as before.
C12_SaveNothingIsNoOp ==
    [][(op'.name = "save" /\ DOMAIN edits = {}) =>
          /\ result' = Ok(<<>>)
          /\ log' = <<>>
          /\ disk' = disk /\ reader' = reader /\ edits' = edits]_vars

\* a save called, after other calls, on an editor that holds no pending edit
C12_Witness ==
    /\ op.name = "save" /\ IsOk(result) /\ log = <<>> /\ ~has_changes
    /\ nops = MaxOps /\ written = NoEdits

\* a search that returned its results
SearchReturned == op.name = "search" /\ IsOk(result)
RowNums(results) == { results[k].row_num : k \in 1..Len(results) }

\* row i is one the search is to return: its raw text decodes and contains the
\* query, and with a column named its field in that column contains it too
Qualifies(i) ==
    LET raw == get_row_raw(reader, i)
        fields == parse_row(raw.val, reader.delimiter)
        options == op.options
        idx == Position(reader.headers, options.column[1])
    IN  /\ IsOk(raw)
        /\ matches(raw.val, op.query, options)
        /\ options.column # <<>> =>
               /\ idx >= 0 /\ idx < Len(fields)
               /\ matches(fields[idx + 1], op.query, options)
Qualifying == { i \in 0..(row_count(reader) - 1) : Qualifies(i) }

\* C13: the results of a search are in strictly ascending row_num order, however
\* the rows were split among the workers and in whatever order the workers finished.
C13_ResultsAscending ==
    SearchReturned =>
        \A k \in 1..(Len(result.val) - 1) : result.val[k].row_num < result.val[k + 1].row_num

\* the job of the higher rows finished first, and both jobs had hits
C13_Witness ==
    /\ SearchReturned /\ Len(jobs) = 2 /\ Len(result.val) >= 2
    /\ found[1].job = 2 /\ found[1].hits # <<>> /\ found[2].hits # <<>>

\* C14: every row whose raw text contains the query under the case policy, and
\* whose field in the named column contains it when a column is named, is among
\* the results, unless max_results entries with lower row numbers were returned.
C14_SearchComplete ==
    SearchReturned =>
        \A i \in Qualifying :
            \/ i \in RowNums(result.val)
            \/ /\ op.options.max_results > 0
               /\ Len(result.val) = op.options.max_results
               /\ \A n \in RowNums(result.val) : n < i

\* a case-insensitive search in a column: a row returned, and a row that holds the
\* query outside the column left out
C14_Witness ==
    /\ SearchReturned /\ op.options.case_insensitive /\ op.options.column # <<>>
    /\ RowNums(result.val) # {}
    /\ \E i \in 0..(row_count(reader) - 1) :
          /\ i \notin Qualifying
          /\ IsOk(get_row_raw(reader, i))
          /\ matches(get_row_raw(reader, i).val, op.query, op.options)

\* C15: with max_results = m > 0 and M matching rows the results are the
\* min(m, M) matches of lowest row number, each once; with max_results = 0 they
\* are all the M matches.
C15_LowestMatchesKept ==
    SearchReturned =>
        LET m == op.options.max_results
            M == Cardinality(Qualifying)
            n == IF m > 0 /\ m < M THEN m ELSE M
        IN  /\ Len(result.val) = n
            /\ RowNums(result.val) =
                   { i \in Qualifying : Cardinality({ j \in Qualifying : j < i }) < n }

\* three rows match and two are asked for
C15_Witness ==
    /\ SearchReturned /\ op.options.max_results = 2 /\ Cardinality(Qualifying) = 3
    /\ RowNums(result.val) = {0, 1}

\* C16: a search fails exactly when a column is named that equals no header, with
\* ColumnNotFound and before any row is scanned; a row that does not decode, or
\* that has no field at the column's index, is left out and the search returns Ok.
C16_OnlyColumnNotFound ==
    op.name = "search" =>
        LET column == op.options.column
            unknown == column # <<>> /\ \A k \in 1..Len(reader.headers) : reader.headers[k] # column[1]
        IN  /\ result.tag \in {"Ok", "Pending", "ColumnNotFound"}
            /\ result.tag = "ColumnNotFound" <=> unknown
            /\ result.tag = "ColumnNotFound" => jobs = <<>> /\ found = <<>>
            /\ IsOk(result) =>
                  \A i \in RowNums(result.val) :
                      /\ IsOk(get_row_raw(reader, i))
                      /\ column # <<>> =>
                            Position(reader.headers, column[1])
                                < Len(parse_row(get_row_raw(reader, i).val, reader.delimiter))

\* a search in the second column returned Ok over a file that holds a row that is
\* not UTF-8 and a row of one field
C16_Witness ==
    /\ SearchReturned /\ op.options.column = << <<Byte.b>> >> /\ RowNums(result.val) # {}
    /\ \E i, j \in 0..(row_count(reader) - 1) :
          /\ ~IsOk(get_row_raw(reader, i))
          /\ IsOk(get_row_raw(reader, j))
          /\ Len(parse_row(get_row_raw(reader, j).val, reader.delimiter)) = 1

\* the lines of a file, each with its line end: a line ends at a \n or at the end
\* of the file
RECURSIVE FileLines(_)
FileLines(data) ==
    IF data = <<>> THEN <<>>
    ELSE IF Position(data, LF) < 0 THEN <<data>>
    ELSE <<SubSeq(data, 1, Position(data, LF) + 1)>>
         \o FileLines(SubSeq(data, Position(data, LF) + 2, Len(data)))

\* a line without its line end, \n or \r\n
StripOne(line) ==
    IF line # <<>> /\ Last(line) = LF
    THEN IF Len(line) >= 2 /\ line[Len(line) - 1] = CR
         THEN SubSeq(line, 1, Len(line) - 2)
         ELSE SubSeq(line, 1, Len(line) - 1)
    ELSE line

\* the file was opened
Opened == reader # NoReader

\* C17: row_count() of an opened file is the number of non-empty lines after the
\* header line, a last line without \n counted.
C17_RowCountIsNonEmptyLines ==
    Opened =>
        row_count(reader) =
            Cardinality({ k \in 2..Len(FileLines(disk)) : StripOne(FileLines(disk)[k]) # <<>> })

\* C18: get_row_raw(i) with i < row_count is line i+1 of the file without its one
\* line end; with i >= row_count it fails with RowOutOfRange(i, row_count).
C18_RawRowIsLine ==
    (Opened /\ op.name = "get_row_raw") =>
        IF op.row >= row_count(reader)
        THEN result = Err("RowOutOfRange", op.row, row_count(reader))
        ELSE IsOk(result) => result.val = StripOne(FileLines(disk)[op.row + 2])

\* C19: get_rows(start, end) is the parsed rows start..min(end, row_count)-1 in
\* order, the empty list when start >= end or start >= row_count, and no end makes
\* it fail: it fails only with the error of the first row of the range that does
\* not decode.
C19_GetRowsRange ==
    (Opened /\ op.name = "get_rows") =>
        LET start == op.row
            end == IF op.col < row_count(reader) THEN op.col ELSE row_count(reader)
            unread == { i \in start..(end - 1) : ~IsOk(reader_get_row(reader, i)) }
        IN  IF unread = {}
            THEN /\ IsOk(result)
                 /\ Len(result.val) = (IF end > start THEN end - start ELSE 0)
                 /\ \A k \in 1..Len(result.val) :
                       result.val[k] = reader_get_row(reader, start + k - 1).val
            ELSE result = reader_get_row(reader, CHOOSE i \in unread : \A j \in unread : i <= j)

\* two rows returned for an end beyond row_count
C19_Witness ==
    /\ Opened /\ op.name = "get_rows" /\ IsOk(result)
    /\ reader.headers # <<>>
    /\ op.col > row_count(reader) /\ Len(result.val) = 2
    /\ result.val[1] # result.val[2]

\* C20: a reader that open() returned has at least one header; a file of no byte,
\* or whose first line is empty, is refused with EmptyFile.
C20_HeadersNonEmpty ==
    op.name = "open" =>
        /\ IsOk(result) => Len(result.val.headers) > 0
        /\ (disk = <<>> \/ StripOne(FileLines(disk)[1]) = <<>>) => result.tag = "EmptyFile"

\* C21: parse_row(serialize_row(F, d), d) = F for every field sequence F, the
\* empty sequence, empty fields and fields holding the delimiter, a quote or a line
\* end included, and every delimiter d.
C21_RoundTrip == op.name = "parse_row" => result.val = op.fields

\* C22: adding further copies of a well-formed data row of the file, one with as
\* many fields as the header under the delimiter in use, leaves the delimiter
\* detect_delimiter returns as it was.
C22_DelimiterStable ==
    [][(op'.name = "append_copy"
        /\ Len(parse_row(op'.val, reader.delimiter)) = Len(reader.headers))
          => detect_delimiter(disk') = detect_delimiter(disk)]_vars

\* C23: a failed save leaves every pending edit in the edit map (and the reader in
\* place), so a save retried right after it that succeeds leaves what the failed
\* one would have left had it succeeded: the file written from that reader and
\* those edits, the reader of that file, an empty edit map.
C23_RetryAfterFailedSave ==
    /\ [][SaveFailed' => (edits' = edits /\ reader' = reader)]_vars
    /\ [][(SaveFailed /\ SaveCalled' /\ IsOk(result')) =>
             /\ disk' = serialize_row(reader.headers, reader.delimiter) \o <<LF>>
                        \o C3_Rows(reader, edits, 0)
             /\ IsOk(open(disk')) /\ reader' = open(disk').val
             /\ edits' = NoEdits]_vars

\* a save has failed at the re-open, after the rename, with edits pending; the save
\* that can follow succeeds and leaves the file as the rename made it
C23_Witness ==
    /\ SaveFailed /\ op.fail = "reopen" /\ has_changes /\ disk # reader.mmap
    /\ nops < MaxOps
    /\ IsOk(save_outcome(disk, reader, edits, "none", 0).result)
    /\ save_outcome(disk, reader, edits, "none", 0).disk = disk

\* the events named name come before the events named later in the log
Before(events, name, later) ==
    \A j, k \in 1..Len(events) :
        (events[j][1] = name /\ events[k][1] = later) => j < k

\* C24: in a successful save the mapping of the old reader is released before the
\* mapping of the new reader is made, so the two never exist together.
C24_OldMappingReleasedFirst == SaveWrote => Before(log, "unmap_old", "map_new")

C26_TempFileGone ==
    (SaveFailed /\ Logged(log, "create_temp")) =>
        /\ Logged(log, "delete_temp") \/ Logged(log, "rename")
        /\ op.fail \in {"write", "flush", "rename"} \/ result.tag = "InvalidUtf8" =>
              Last(log)[1] = "delete_temp"

\* a save that failed on a row that does not decode, after it had written lines
C26_Witness ==
    /\ SaveFailed /\ result.tag = "InvalidUtf8" /\ Logged(log, "write")
    /\ Last(log)[1] = "delete_temp"

\* the step was a save that renamed its temp file over the file
Renamed == op'.name = "save" /\ Logged(log', "rename")

\* C28: set_row, set_cell, revert_row and revert_all leave the bytes of the file and
\* the reader (index, row_count, headers, delimiter) as they were; these change
\* only in a save that reaches the rename.
C28_OnlySaveTouchesFile ==
    /\ [][op'.name \in {"set_row", "set_cell", "revert_row", "revert_all"} =>
             (disk' = disk /\ reader' = reader)]_vars
    /\ [][(disk' # disk \/ reader' # reader) => Renamed]_vars

\* edits made and reverted, the file and the reader still those of the open
C28_Witness ==
    /\ op.name = "revert_all" /\ nops = MaxOps /\ ~has_changes
    /\ disk = reader.mmap /\ row_count(reader) = 2

\* C29: across a successful save the reader's delimiter and headers are what they
\* were before it, whatever the pending edits.
C29_MetadataKept ==
    [][(SaveCalled' /\ IsOk(result')) =>
          (reader'.delimiter = reader.delimiter /\ reader'.headers = reader.headers)]_vars

\* C27: through a CsvDocument every operation runs while holding the one editor mutex:
\* a thread between its lock and its return is the holder, so no two operations
\* overlap; the file, the reader and the edit map change only in the body of the
\* holder's call while no other thread is inside one; and while a search scans the
\* reader, neither the file nor the reader nor the edit map changes.
C27_Serialized ==
    /\ [](\A t \in Threads : Inside(t) => mutex = t)
    /\ [][(<<disk, reader, edits>>' # <<disk, reader, edits>>) =>
             \E t \in Threads :
                 /\ mutex = t /\ threads[t].pc = "holding" /\ threads'[t].pc = "done"
                 /\ \A u \in Threads \ {t} : ~Inside(u) /\ threads'[u] = threads[u]]_vars
    /\ [][(\E t \in Threads : threads[t].pc = "scanning") =>
             <<disk, reader, edits>>' = <<disk, reader, edits>>]_vars
\* a search has scanned part of the rows while a save of a pending edit waits for the lock
C27_Witness ==
    \E t, u \in Threads :
        /\ threads[t].pc = "scanning" /\ Len(found) = 1 /\ Len(jobs) = 2
        /\ threads[u] = [pc |-> "waiting", call |-> "save"]
        /\ has_changes

\* C30: in a search restricted to a column, every row that decodes and whose parsed
\* field in that column contains the query under the case policy has raw text that
\* passes the pre-filter, and is among the results unless max_results entries with
\* lower row numbers were returned.
C30_PrefilterKeepsMatches ==
    (SearchReturned /\ op.options.column # <<>>) =>
        \A i \in 0..(row_count(reader) - 1) :
            LET raw == get_row_raw(reader, i)
                fields == parse_row(raw.val, reader.delimiter)
                idx == Position(reader.headers, op.options.column[1])
            IN  (/\ IsOk(raw)
                 /\ idx < Len(fields)
                 /\ matches(fields[idx + 1], op.query, op.options)) =>
                    /\ matches(raw.val, op.query, op.options)
                    /\ \/ i \in RowNums(result.val)
                       \/ /\ op.options.max_results > 0
                          /\ Len(result.val) = op.options.max_results
                          /\ \A n \in RowNums(result.val) : n < i

\* C31: every result of a search has a row number below row_count and the fields
\* reader.get_row returns for that row; the raw text of the row contains the query
\* under the case policy, and with a column named the field at the column's index
\* contains it too; no row number is returned twice.
C31_SearchSound ==
    SearchReturned =>
        \A k \in 1..Len(result.val) :
            LET r == result.val[k]
                raw == get_row_raw(reader, r.row_num)
                idx == Position(reader.headers, op.options.column[1])
            IN  /\ r.row_num < row_count(reader)
                /\ reader_get_row(reader, r.row_num) = Ok(r.fields)
                /\ matches(raw.val, op.query, op.options)
                /\ op.options.column # <<>> =>
                       /\ idx >= 0 /\ idx < Len(r.fields)
                       /\ matches(r.fields[idx + 1], op.query, op.options)
                /\ \A j \in 1..Len(result.val) : j # k => result.val[j].row_num # r.row_num

\* a search in the first column over two jobs returned two rows and left out a row
\* that holds the query in its other column
C31_Witness ==
    /\ SearchReturned /\ op.options.column = << <<Byte.a>> >> /\ Len(jobs) = 2
    /\ Len(result.val) = 2 /\ row_count(reader) = 3
    /\ \E i \in 0..2 :
          /\ i \notin RowNums(result.val)
          /\ IsOk(get_row_raw(reader, i))
          /\ matches(get_row_raw(reader, i).val, op.query, op.options)

\* C32: a row present in the edit map supersedes the file for every read made
\* through the document: get_row returns its pending fields, get_rows returns them
\* at its place in the range, and a result of search for that row carries them.
C32_EditsSupersedeFile ==
    /\ (op.name = "get_row" /\ op.row \in DOMAIN edits) => result = Ok(edits[op.row])
    /\ (op.name = "get_rows" /\ IsOk(result)) =>
           \A k \in 1..Len(result.val) :
               (op.row + k - 1) \in DOMAIN edits => result.val[k] = edits[op.row + k - 1]
    /\ (op.name = "search" /\ IsOk(result)) =>
           \A k \in 1..Len(result.val) :
               result.val[k].row_num \in DOMAIN edits =>
                   result.val[k].fields = edits[result.val[k].row_num]

\* the lines detect_delimiter samples: the first 20 lines, each without its \n and
\* without a \r before it
SampledLines(data) ==
    LET lines == FileLines(data)
        n == IF Len(lines) < 20 THEN Len(lines) ELSE 20
        text(l) == IF l # <<>> /\ Last(l) = LF THEN Front(l) ELSE l
        bare(l) == IF l # <<>> /\ Last(l) = CR THEN Front(l) ELSE l
    IN  [k \in 1..n |-> bare(text(lines[k]))]
\* the fields of a line under delimiter d: one more than the d's that have an even
\* number of quotes before them
UnquotedCount(line, d) ==
    1 + Cardinality({ i \in 1..Len(line) :
                        /\ line[i] = d
                        /\ Cardinality({ j \in 1..(i - 1) : line[j] = QUOTE }) % 2 = 0 })
\* consistency x mode of a candidate, 0 for a candidate that is skipped
CandidateScore(sample, d) ==
    LET mode == UnquotedCount(sample[1], d)
    IN  IF mode <= 1 THEN 0
        ELSE mode * Cardinality({ k \in 1..Len(sample) : UnquotedCount(sample[k], d) = mode })
Candidates == <<COMMA, TAB, SEMICOLON, PIPE>>

\* C33: detect_delimiter returns comma on empty input and when no candidate scores
\* above 0; otherwise the candidate of highest score consistency x mode over the
\* first 20 lines, the earliest of comma, tab, semicolon, pipe among equal scores.
C33_HighestScoreEarliest ==
    op.name = "detect_delimiter" =>
        LET sample == SampledLines(disk)
            score(k) == CandidateScore(sample, Candidates[k])
        IN  IF sample = <<>> \/ \A k \in 1..4 : score(k) = 0
            THEN result.val = COMMA
            ELSE \E k \in 1..4 :
                    /\ result.val = Candidates[k]
                    /\ \A j \in 1..4 : score(j) <= score(k)
                    /\ \A j \in 1..(k - 1) : score(j) < score(k)

\* an input of 21 lines: the 20 sampled ones split in two under ',' and under ';',
\* the last one under ';' only; the scores are equal and ',' is returned
C33_Witness ==
    /\ op.name = "detect_delimiter" /\ Len(op.lines) = 21
    /\ op.lines[1] = <<Byte.a, COMMA, Byte.b, SEMICOLON, Byte.h>>
    /\ op.lines[20] = op.lines[1]
    /\ op.lines[21] = <<Byte.x, SEMICOLON, Byte.y>>
    /\ result.val = COMMA

\* where a row can start: the offset after the header line, and the offset after
\* every later \n that is not the last byte of the file
RowStarts(data) ==
    LET p == Position(data, LF)
        data_start == IF p < 0 THEN Len(data) ELSE p + 1
    IN  IF data_start >= Len(data) THEN {}
        ELSE {data_start} \cup { i \in (data_start + 1)..(Len(data) - 1) : data[i] = LF }
Greatest(S) == CHOOSE m \in S : \A n \in S : n <= m
\* the slice at offset start, without one line end, is empty or ASCII whitespace only
BlankFrom(data, start) ==
    LET text == StripOne(SubSeq(data, start + 1, Len(data)))
    IN  \A k \in 1..Len(text) : text[k] \in {SP, TAB, LF, FF, CR}

\* C34: the row offset index built at open is strictly increasing; every offset is
\* below the file length and is data_start or the position right after a \n; every
\* such position is in the index except possibly the last, which is left out exactly
\* when the slice it points at is empty or ASCII whitespace only after one line end
\* is stripped: earlier blank lines stay indexed.
C34_IndexOffsets ==
    Opened =>
        LET index == reader.line_index
            offsets == { index[k] : k \in 1..Len(index) }
            starts == RowStarts(reader.mmap)
        IN  /\ \A k \in 1..(Len(index) - 1) : index[k] < index[k + 1]
            /\ \A o \in offsets : o < Len(reader.mmap) /\ o \in starts
            /\ starts \ offsets \subseteq (IF starts = {} THEN {} ELSE {Greatest(starts)})
            /\ starts # {} =>
                   (Greatest(starts) \notin offsets <=> BlankFrom(reader.mmap, Greatest(starts)))

\* a file whose first data line is blank and whose last line holds a space only: the
\* blank line is indexed, the last line is not
C34_Witness ==
    /\ Opened /\ op.name = "open" /\ reader.headers # <<>> /\ row_count(reader) = 1
    /\ reader.mmap[reader.line_index[1] + 1] = LF
    /\ Cardinality(RowStarts(reader.mmap)) = 2
    /\ reader.mmap[Greatest(RowStarts(reader.mmap)) + 1] = SP

====
